---------------------------- MODULE Spec2Model ----------------------------
(***************************************************************************)
(* A model of the documentation crawler of src/fetch: main.py (URL         *)
(* normalisation, scrape_page, the orchestration in main) and the          *)
(* extractor registry and webdoc strategy of src/fetch/extractors.         *)
(*                                                                         *)
(* Text (URLs, hrefs) is a sequence of one-character strings, so that      *)
(* parsing and normalisation are computed character by character as        *)
(* urllib.parse does.  Python's 0-based indices become 1-based; "not       *)
(* found" (-1 in Python) is 0.                                             *)
(***************************************************************************)
EXTENDS Integers, Sequences, FiniteSets, TLC

(***************************************************************************)
(* Bounds of the model.                                                    *)
(***************************************************************************)
\* longest tail appended to a scheme://host prefix when enumerating URLs
MaxTail == 4
\* most '/' characters added to the path of a URL to build a variant of it
MaxExtraSlash == 2
\* most anchors in the navigation of the seed page
MaxLinks == 3
\* largest --max-pages given on the command line
MaxCap == 2
\* most failures of the environment (a request, the temporary file, the
\* converter, the unlink, a write) in one run
MaxFaults == 1

(***************************************************************************)
(* Text helpers (str methods used by the code and by urllib.parse).        *)
(***************************************************************************)
Min(S) == CHOOSE x \in S : \A y \in S : x <= y

Max(S) == CHOOSE x \in S : \A y \in S : x >= y

\* s[from:] in 1-based terms
From(s, from) == SubSeq(s, from, Len(s))

\* str.find(c, from): the least index >= from holding c, 0 when there is none
Find(s, c, from) ==
    LET I == {i \in from..Len(s) : s[i] = c}
    IN  IF I = {} THEN 0 ELSE Min(I)

\* the least index >= from holding one of the characters C, 0 when none
FindAny(s, C, from) ==
    LET I == {i \in from..Len(s) : s[i] \in C}
    IN  IF I = {} THEN 0 ELSE Min(I)

\* str.rfind(c)
RFind(s, c) ==
    LET I == {i \in 1..Len(s) : s[i] = c}
    IN  IF I = {} THEN 0 ELSE Max(I)

\* str.startswith(p)
StartsWith(s, p) == Len(s) >= Len(p) /\ SubSeq(s, 1, Len(p)) = p

\* str.endswith(p)
EndsWith(s, p) == Len(s) >= Len(p) /\ SubSeq(s, Len(s) - Len(p) + 1, Len(s)) = p

Uppercase ==
    << "A","B","C","D","E","F","G","H","I","J","K","L","M",
       "N","O","P","Q","R","S","T","U","V","W","X","Y","Z" >>

Lowercase ==
    << "a","b","c","d","e","f","g","h","i","j","k","l","m",
       "n","o","p","q","r","s","t","u","v","w","x","y","z" >>

Range(s) == {s[i] : i \in DOMAIN s}

\* str.isalpha() on one ASCII character
IsAlpha(c) == c \in Range(Uppercase) \cup Range(Lowercase)

\* str.lower()
LowerChar(c) ==
    IF c \in Range(Uppercase)
    THEN Lowercase[CHOOSE i \in DOMAIN Uppercase : Uppercase[i] = c]
    ELSE c

Lower(s) == [i \in DOMAIN s |-> LowerChar(s[i])]

(***************************************************************************)
(* urllib.parse.urlparse as normalize_url uses it.                         *)
(***************************************************************************)
\* urllib.parse.scheme_chars: letters, digits, "+", "-", "."
scheme_chars ==
    Range(Uppercase) \cup Range(Lowercase)
        \cup {"0","1","2","3","4","5","6","7","8","9","+","-","."}

\* urllib.parse.uses_params: the schemes whose last path segment may carry
\* ";parameters"
uses_params ==
    { <<>>,
      <<"f","t","p">>, <<"h","d","l">>,
      <<"p","r","o","s","p","e","r","o">>,
      <<"h","t","t","p">>, <<"i","m","a","p">>,
      <<"h","t","t","p","s">>, <<"s","h","t","t","p">>,
      <<"r","t","s","p">>, <<"r","t","s","p","u">>,
      <<"s","i","p">>, <<"s","i","p","s">>, <<"m","m","s">>,
      <<"s","f","t","p">>, <<"t","e","l">> }

\* urllib.parse.uses_relative: the schemes a relative reference is resolved under
uses_relative ==
    { <<>>,
      <<"f","t","p">>,
      <<"h","t","t","p">>,
      <<"g","o","p","h","e","r">>,
      <<"n","n","t","p">>,
      <<"i","m","a","p">>,
      <<"w","a","i","s">>,
      <<"f","i","l","e">>,
      <<"h","t","t","p","s">>,
      <<"s","h","t","t","p">>,
      <<"m","m","s">>,
      <<"p","r","o","s","p","e","r","o">>,
      <<"r","t","s","p">>,
      <<"r","t","s","p","s">>,
      <<"r","t","s","p","u">>,
      <<"s","f","t","p">>,
      <<"s","v","n">>,
      <<"s","v","n","+","s","s","h">>,
      <<"w","s">>,
      <<"w","s","s">> }

\* urllib.parse.uses_netloc: the schemes written with //netloc
uses_netloc ==
    { <<>>,
      <<"f","t","p">>,
      <<"h","t","t","p">>,
      <<"g","o","p","h","e","r">>,
      <<"n","n","t","p">>,
      <<"t","e","l","n","e","t">>,
      <<"i","m","a","p">>,
      <<"w","a","i","s">>,
      <<"f","i","l","e">>,
      <<"m","m","s">>,
      <<"h","t","t","p","s">>,
      <<"s","h","t","t","p">>,
      <<"s","n","e","w","s">>,
      <<"p","r","o","s","p","e","r","o">>,
      <<"r","t","s","p">>,
      <<"r","t","s","p","s">>,
      <<"r","t","s","p","u">>,
      <<"r","s","y","n","c">>,
      <<"s","v","n">>,
      <<"s","v","n","+","s","s","h">>,
      <<"s","f","t","p">>,
      <<"n","f","s">>,
      <<"g","i","t">>,
      <<"g","i","t","+","s","s","h">>,
      <<"w","s">>,
      <<"w","s","s">> }

\* s cut at the first occurrence of c: what precedes it and what follows
\* it (all of s and nothing when c does not occur)
Cut(s, c) ==
    IF Find(s, c, 1) = 0 THEN [head |-> s, tail |-> <<>>]
    ELSE [head |-> SubSeq(s, 1, Find(s, c, 1) - 1),
          tail |-> From(s, Find(s, c, 1) + 1)]

\* urlsplit, the scheme: the text before the first ":" when it starts with a
\* letter and holds only scheme_chars, lower-cased; else the default
SplitScheme(url, default) ==
    IF /\ Find(url, ":", 1) > 1
       /\ IsAlpha(url[1])
       /\ \A k \in 1..(Find(url, ":", 1) - 1) : url[k] \in scheme_chars
    THEN [scheme |-> Lower(SubSeq(url, 1, Find(url, ":", 1) - 1)),
          rest |-> From(url, Find(url, ":", 1) + 1)]
    ELSE [scheme |-> default, rest |-> url]

\* urlsplit, the netloc (_splitnetloc): after "//", up to the first of "/?#"
SplitNetloc(url) ==
    IF ~StartsWith(url, <<"/", "/">>) THEN [netloc |-> <<>>, rest |-> url]
    ELSE IF FindAny(url, {"/", "?", "#"}, 3) = 0
    THEN [netloc |-> From(url, 3), rest |-> <<>>]
    ELSE [netloc |-> SubSeq(url, 3, FindAny(url, {"/", "?", "#"}, 3) - 1),
          rest |-> From(url, FindAny(url, {"/", "?", "#"}, 3))]

\* urlsplit, the end: the query is cut off what precedes the fragment
SplitQuery(scheme, netloc, fragment, q) ==
    [scheme |-> scheme, netloc |-> netloc, path |-> q.head, query |-> q.tail,
     fragment |-> fragment]

SplitFragment(scheme, netloc, f) ==
    SplitQuery(scheme, netloc, f.tail, Cut(f.head, "?"))

SplitRest(scheme, n) == SplitFragment(scheme, n.netloc, Cut(n.rest, "#"))

SplitAfterScheme(s) == SplitRest(s.scheme, SplitNetloc(s.rest))

\* urlsplit(url, scheme=default): scheme, then //netloc, then #fragment,
\* then ?query; what is left is the path
urlsplit(url, default) == SplitAfterScheme(SplitScheme(url, default))

\* _splitparams: cut the path at the first ";" of its last segment
splitparams(path) ==
    IF Find(path, ";", IF RFind(path, "/") > 0 THEN RFind(path, "/") ELSE 1) = 0
    THEN [head |-> path, tail |-> <<>>]
    ELSE [head |-> SubSeq(path, 1,
                     Find(path, ";",
                          IF RFind(path, "/") > 0 THEN RFind(path, "/") ELSE 1) - 1),
          tail |-> From(path,
                     Find(path, ";",
                          IF RFind(path, "/") > 0 THEN RFind(path, "/") ELSE 1) + 1)]

WithParams(s, sp) ==
    [scheme |-> s.scheme, netloc |-> s.netloc, path |-> sp.head,
     params |-> sp.tail, query |-> s.query, fragment |-> s.fragment]

\* urlparse on the result of urlsplit: the ";parameters" are split off the
\* path for the schemes of uses_params
ParseSplit(s) ==
    WithParams(s, IF s.scheme \in uses_params /\ Find(s.path, ";", 1) > 0
                  THEN splitparams(s.path)
                  ELSE [head |-> s.path, tail |-> <<>>])

\* urlparse(url, scheme=default)
urlparse_with(url, default) == ParseSplit(urlsplit(url, default))

\* urlparse(url)
urlparse(url) == urlparse_with(url, <<>>)

\* urlunsplit: "//netloc" when there is a netloc (or the scheme is written
\* with one), then "scheme:", "?query" and "#fragment"
urlunsplit(scheme, netloc, url, query, fragment) ==
    (IF scheme /= <<>> THEN scheme \o <<":">> ELSE <<>>)
      \o (IF \/ netloc /= <<>>
             \/ /\ scheme /= <<>>
                /\ scheme \in uses_netloc
                /\ ~StartsWith(url, <<"/", "/">>)
          THEN <<"/", "/">> \o netloc
                 \o (IF url /= <<>> /\ url[1] /= "/" THEN <<"/">> ELSE <<>>) \o url
          ELSE url)
      \o (IF query /= <<>> THEN <<"?">> \o query ELSE <<>>)
      \o (IF fragment /= <<>> THEN <<"#">> \o fragment ELSE <<>>)

\* urlunparse: the parameters go back onto the path, then urlunsplit
urlunparse(p) ==
    urlunsplit(p.scheme, p.netloc,
               IF p.params /= <<>> THEN p.path \o <<";">> \o p.params ELSE p.path,
               p.query, p.fragment)

\* str.split(c): the pieces between the occurrences of c
RECURSIVE Split(_, _)
Split(s, c) ==
    LET i == Find(s, c, 1)
    IN  IF i = 0 THEN <<s>>
        ELSE <<SubSeq(s, 1, i - 1)>> \o Split(From(s, i + 1), c)

\* c.join(segs)
RECURSIVE Join(_, _)
Join(segs, c) ==
    IF segs = <<>> THEN <<>>
    ELSE IF Len(segs) = 1 THEN segs[1]
    ELSE segs[1] \o <<c>> \o Join(From(segs, 2), c)

\* filter(None, segs): the non-empty segments
RECURSIVE NonEmpty(_)
NonEmpty(segs) ==
    IF segs = <<>> THEN <<>>
    ELSE (IF segs[1] = <<>> THEN <<>> ELSE <<segs[1]>>) \o NonEmpty(From(segs, 2))

\* the loop of urljoin over the segments: ".." pops, "." is dropped
RECURSIVE ResolveDots(_, _)
ResolveDots(segs, resolved) ==
    IF segs = <<>> THEN resolved
    ELSE IF segs[1] = <<".", ".">>
         THEN ResolveDots(From(segs, 2),
                          IF resolved = <<>> THEN <<>>
                          ELSE SubSeq(resolved, 1, Len(resolved) - 1))
    ELSE IF segs[1] = <<".">>
         THEN ResolveDots(From(segs, 2), resolved)
    ELSE ResolveDots(From(segs, 2), Append(resolved, segs[1]))

\* segments[1:-1] = filter(None, segments[1:-1])
FilterInner(segs) ==
    IF Len(segs) <= 2 THEN segs
    ELSE <<segs[1]>> \o NonEmpty(SubSeq(segs, 2, Len(segs) - 1))
            \o <<segs[Len(segs)]>>

\* bpath.split('/') without its last piece unless that piece is empty
BaseParts(parts) ==
    IF parts[Len(parts)] /= <<>> THEN SubSeq(parts, 1, Len(parts) - 1) ELSE parts

\* the segments of the joined path
Segments(bpath, path) ==
    IF path /= <<>> /\ path[1] = "/" THEN Split(path, "/")
    ELSE FilterInner(BaseParts(Split(bpath, "/")) \o Split(path, "/"))

\* the resolved segments, with an empty one added after a final "." or ".."
ResolvedPath(segments) ==
    IF segments[Len(segments)] \in {<<".">>, <<".", ".">>}
    THEN Append(ResolveDots(segments, <<>>), <<>>)
    ELSE ResolveDots(segments, <<>>)

OrSlash(path) == IF path = <<>> THEN <<"/">> ELSE path

\* urljoin once both URLs are parsed (b the base, r the reference)
JoinParsed(url, b, r) ==
    IF r.scheme /= b.scheme \/ r.scheme \notin uses_relative THEN url
    ELSE IF r.scheme \in uses_netloc /\ r.netloc /= <<>> THEN urlunparse(r)
    ELSE IF r.path = <<>> /\ r.params = <<>>
    THEN urlunparse([scheme |-> r.scheme,
                     netloc |-> IF r.scheme \in uses_netloc THEN b.netloc
                                ELSE r.netloc,
                     path |-> b.path, params |-> b.params,
                     query |-> IF r.query = <<>> THEN b.query ELSE r.query,
                     fragment |-> r.fragment])
    ELSE urlunparse([scheme |-> r.scheme,
                     netloc |-> IF r.scheme \in uses_netloc THEN b.netloc
                                ELSE r.netloc,
                     path |-> OrSlash(Join(ResolvedPath(Segments(b.path, r.path)),
                                           "/")),
                     params |-> r.params, query |-> r.query,
                     fragment |-> r.fragment])

JoinBase(url, b) == JoinParsed(url, b, urlparse_with(url, b.scheme))

\* urllib.parse.urljoin(base, url)
urljoin(base, url) ==
    IF base = <<>> THEN url
    ELSE IF url = <<>> THEN base
    ELSE JoinBase(url, urlparse_with(base, <<>>))

(***************************************************************************)
(* normalize_url (main.py).                                                *)
(***************************************************************************)
\* while normalized.endswith('/'): normalized = normalized[:-1]
RECURSIVE strip_trailing_slashes(_)
strip_trailing_slashes(s) ==
    IF EndsWith(s, <<"/">>)
    THEN strip_trailing_slashes(SubSeq(s, 1, Len(s) - 1))
    ELSE s

\* lines 79-90 of normalize_url, on the parsed URL
Reassemble(parsed) ==
    strip_trailing_slashes(
        parsed.scheme \o <<":", "/", "/">> \o parsed.netloc \o parsed.path)
      \o (IF parsed.query /= <<>> THEN <<"?">> \o parsed.query ELSE <<>>)

normalize_url(url) == Reassemble(urlparse(url))

(***************************************************************************)
(* The string literals of the code, as character sequences.                *)
(***************************************************************************)
\* 'webdoc-js/webdoc'
WEBDOCJS == <<"w","e","b","d","o","c","-","j","s","/","w","e","b","d","o","c">>

\* 'Webdoc'
WEBDOC == <<"W","e","b","d","o","c">>

\* 'Documentation generated by'
GENERATEDBY == <<"D","o","c","u","m","e","n","t","a","t","i","o","n"," ","g","e","n","e","r","a","t","e","d"," ","b","y">>

\* 'javascript:'
JAVASCRIPT == <<"j","a","v","a","s","c","r","i","p","t",":">>

\* 'content-size'
CONTENTSIZE == <<"c","o","n","t","e","n","t","-","s","i","z","e">>

\* 'navigation'
NAVIGATION == <<"n","a","v","i","g","a","t","i","o","n">>

\* 'sidebar'
SIDEBAR == <<"s","i","d","e","b","a","r">>

\* 'menu'
MENU == <<"m","e","n","u">>

\* 'side-nav'
SIDENAV == <<"s","i","d","e","-","n","a","v">>

\* 'nav'
NAV == <<"n","a","v">>

\* 'navbar'
NAVBAR == <<"n","a","v","b","a","r">>

\* 'main'
MAIN == <<"m","a","i","n">>

\* '&amp;'
AMP == <<"&","a","m","p",";">>

\* '&lt;'
LT == <<"&","l","t",";">>

\* '&gt;'
GT == <<"&","g","t",";">>

\* '<html><body>'
HTML_OPEN == <<"<","h","t","m","l",">","<","b","o","d","y",">">>

\* '</body></html>'
HTML_CLOSE == <<"<","/","b","o","d","y",">","<","/","h","t","m","l",">">>

\* '\<S>'
ESC_S_UPPER == <<"\\","<","S",">">>

\* '\<s>'
ESC_S_LOWER == <<"\\","<","s",">">>

\* 'http://h/a/'
SEED_A == <<"h","t","t","p",":","/","/","h","/","a","/">>

\* 'http://h/a;/'
SEED_P == <<"h","t","t","p",":","/","/","h","/","a",";","/">>

\* 'http://h/a;'
HREF_P == <<"h","t","t","p",":","/","/","h","/","a",";">>

\* 'b'
HREF_B == <<"b">>

\* 'http://h/a/'
HREF_A_SLASH == <<"h","t","t","p",":","/","/","h","/","a","/">>

\* '#top'
HREF_TOP == <<"#","t","o","p">>

\* 'http://h/b/'
HREF_B_SLASH == <<"h","t","t","p",":","/","/","h","/","b","/">>

\* '/c#x'
HREF_C_FRAG == <<"/","c","#","x">>

\* 'javascript:v'
HREF_JS == <<"j","a","v","a","s","c","r","i","p","t",":","v">>

\* 'http://h'
PREFIX_HTTP == <<"h","t","t","p",":","/","/","h">>

\* 'HTTP://h'
PREFIX_UPPER == <<"H","T","T","P",":","/","/","h">>

\* 'http://'
HTTP_ == <<"h","t","t","p",":","/","/">>

\* 'https://'
HTTPS_ == <<"h","t","t","p","s",":","/","/">>

(***************************************************************************)
(* The parsed page (BeautifulSoup) as a tree.  A node is a record: an      *)
(* element has a tag, a set of class names, an optional href and its       *)
(* children in document order; a text node has tag "#text" and its text.   *)
(* The root of a parsed document has tag "[document]".                     *)
(***************************************************************************)
Elem(tag, cls, kids) ==
    [tag |-> tag, cls |-> cls, has_href |-> FALSE, href |-> <<>>,
     text |-> <<>>, kids |-> kids]

Anchor(href, kids) ==
    [tag |-> "a", cls |-> {}, has_href |-> TRUE, href |-> href,
     text |-> <<>>, kids |-> kids]

TextNode(chars) ==
    [tag |-> "#text", cls |-> {}, has_href |-> FALSE, href |-> <<>>,
     text |-> chars, kids |-> <<>>]

Document(kids) == Elem("[document]", {}, kids)

\* sub in s (substring)
Contains(s, sub) ==
    \E i \in 1..(Len(s) - Len(sub) + 1) : SubSeq(s, i, i + Len(sub) - 1) = sub

\* the concatenation of a sequence of sequences
RECURSIVE Concat(_)
Concat(ss) == IF ss = <<>> THEN <<>> ELSE ss[1] \o Concat(From(ss, 2))

\* the elements below a node, in document order (what find_all walks)
RECURSIVE Descendants(_)
Descendants(node) ==
    Concat([i \in DOMAIN node.kids |->
              IF node.kids[i].tag = "#text" THEN <<>>
              ELSE <<node.kids[i]>> \o Descendants(node.kids[i])])

\* tag.text: the text below a node, concatenated in document order
RECURSIVE TextOf(_)
TextOf(node) ==
    IF node.tag = "#text" THEN node.text
    ELSE Concat([i \in DOMAIN node.kids |-> TextOf(node.kids[i])])

\* find_all(tags): the descendants with one of the tags
FindAllTags(node, tags) ==
    LET T(n) == n.tag \in tags IN SelectSeq(Descendants(node), T)

\* find(tag, {'class': classes}): the first descendant with the tag and one of
\* the classes; found = FALSE stands for None
FindTagClass(node, tag, classes) ==
    LET T(n) == n.tag = tag /\ n.cls \cap classes /= {}
        hits == SelectSeq(Descendants(node), T)
    IN  IF hits = <<>> THEN [found |-> FALSE, node |-> Document(<<>>)]
        ELSE [found |-> TRUE, node |-> hits[1]]

\* find(tag): the first descendant with the tag
FindTag(node, tag) ==
    LET hits == FindAllTags(node, {tag})
    IN  IF hits = <<>> THEN [found |-> FALSE, node |-> Document(<<>>)]
        ELSE [found |-> TRUE, node |-> hits[1]]

\* the removal that looks at tag names only, never at class names
Gone_TagsOnly(what, n) ==
    CASE what = "chrome"  -> n.tag \in {"header", "footer", "nav"}
      [] what = "side"    -> FALSE
      [] what = "clutter" -> n.tag \in {"script", "style", "footer"}

\* the elements extract_main_content removes: "chrome" is header, footer and
\* nav; "side" is any class name holding 'sidebar', 'menu' or 'nav'; "clutter"
\* is script, style and footer
Gone(what, n) ==
    CASE what = "chrome"  -> n.tag \in {"header", "footer", "nav"}
      [] what = "side"    -> \E c \in n.cls :
                                Contains(c, SIDEBAR) \/ Contains(c, MENU)
                                    \/ Contains(c, NAV)
      [] what = "clutter" -> n.tag \in {"script", "style", "footer"}

\* decompose() of every descendant that is Gone: the node without them
RECURSIVE Decompose(_, _)
Decompose(node, what) ==
    LET K(n) == ~Gone(what, n)
        kept == SelectSeq(node.kids, K)
    IN  [node EXCEPT !.kids = [i \in DOMAIN kept |-> Decompose(kept[i], what)]]

\* the characters str.strip() removes
Whitespace == {" ", "\t", "\n", "\r"}

\* str.strip(): s without the whitespace at its two ends
Strip(s) ==
    LET inked == {i \in DOMAIN s : s[i] \notin Whitespace}
    IN  IF inked = {} THEN <<>> ELSE SubSeq(s, Min(inked), Max(inked))

\* str.replace(old, new): every occurrence of old, left to right
RECURSIVE Replace(_, _, _)
Replace(s, old, new) ==
    IF s = <<>> THEN <<>>
    ELSE IF StartsWith(s, old) THEN new \o Replace(From(s, Len(old) + 1), old, new)
    ELSE <<s[1]>> \o Replace(From(s, 2), old, new)

\* the characters of each tag name
TagChars ==
    [ html |-> <<"h","t","m","l">>,
      body |-> <<"b","o","d","y">>,
      div |-> <<"d","i","v">>,
      nav |-> <<"n","a","v">>,
      a |-> <<"a">>,
      footer |-> <<"f","o","o","t","e","r">>,
      header |-> <<"h","e","a","d","e","r">>,
      script |-> <<"s","c","r","i","p","t">>,
      style |-> <<"s","t","y","l","e">>,
      title |-> <<"t","i","t","l","e">>,
      p |-> <<"p">> ]

\* text as markup: "&", "<" and ">" become entities
EscapeEntities(chars) ==
    Replace(Replace(Replace(chars, <<"&">>, AMP), <<"<">>, LT), <<">">>, GT)

\* str(tag): the markup of a node, "<tag>" children "</tag>", with the text
\* entity-escaped (attributes are not written out)
RECURSIVE Serialize(_)
Serialize(node) ==
    IF node.tag = "#text" THEN EscapeEntities(node.text)
    ELSE IF node.tag = "[document]"
    THEN Concat([i \in DOMAIN node.kids |-> Serialize(node.kids[i])])
    ELSE <<"<">> \o TagChars[node.tag] \o <<">">>
            \o Concat([i \in DOMAIN node.kids |-> Serialize(node.kids[i])])
            \o <<"<", "/">> \o TagChars[node.tag] \o <<">">>

(***************************************************************************)
(* extractors/webdoc.py                                                    *)
(***************************************************************************)
\* the anchors below a node whose href holds the marker, each with its
\* find_parent('div'): the nearest enclosing div (has_div = FALSE: None)
RECURSIVE WebdocLinks(_, _, _)
WebdocLinks(node, has_div, div) ==
    LET here == IF node.tag = "a" /\ node.has_href /\ node.href /= <<>>
                   /\ Contains(node.href, WEBDOCJS)
                THEN <<[link |-> node, has_div |-> has_div, div |-> div]>>
                ELSE <<>>
        in_div == node.tag = "div"
    IN  here \o Concat([i \in DOMAIN node.kids |->
                          IF node.kids[i].tag = "#text" THEN <<>>
                          ELSE WebdocLinks(node.kids[i],
                                           has_div \/ in_div,
                                           IF in_div THEN node ELSE div)])

is_webdoc_generated(soup) ==
    LET webdoc_links == WebdocLinks(soup, FALSE, soup)
        footer == FindTagClass(soup, "footer", {CONTENTSIZE})
    IN  \/ \E i \in DOMAIN webdoc_links :
              /\ Contains(TextOf(webdoc_links[i].link), WEBDOC)
              /\ webdoc_links[i].has_div
              /\ Contains(TextOf(webdoc_links[i].div), GENERATEDBY)
        \/ /\ footer.found
           /\ Contains(TextOf(footer.node), WEBDOC)
           /\ Contains(TextOf(footer.node), GENERATEDBY)

\* the hrefs of a navigation container with only the empty ones left out
CollectHrefs_Unfiltered(container) ==
    LET IsLink(n) == n.tag = "a" /\ n.has_href /\ n.href /= <<>>
        as == SelectSeq(Descendants(container), IsLink)
    IN  [i \in DOMAIN as |-> as[i].href]

\* the hrefs kept from a navigation container: every a[href] below it whose
\* href is not empty, not "#..." and not "javascript:..."
CollectHrefs(container) ==
    LET IsLink(n) == /\ n.tag = "a" /\ n.has_href
                     /\ n.href /= <<>>
                     /\ ~StartsWith(n.href, <<"#">>)
                     /\ ~StartsWith(n.href, JAVASCRIPT)
        as == SelectSeq(Descendants(container), IsLink)
    IN  [i \in DOMAIN as |-> as[i].href]

\* remove duplicates while preserving order
RECURSIVE Unique(_, _)
Unique(links, seen) ==
    IF links = <<>> THEN <<>>
    ELSE IF links[1] \in seen THEN Unique(From(links, 2), seen)
    ELSE <<links[1]>> \o Unique(From(links, 2), seen \cup {links[1]})

extract_navigation_links(soup) ==
    LET nav     == FindTag(soup, "nav")
        navdiv  == FindTagClass(soup, "div", {NAVIGATION})
        navigation == IF nav.found THEN nav ELSE navdiv
        links1  == IF navigation.found THEN CollectHrefs(navigation.node) ELSE <<>>
        sidebar == FindTagClass(soup, "div", {SIDEBAR, MENU, SIDENAV})
        links2  == IF links1 /= <<>> THEN links1
                   ELSE IF sidebar.found THEN CollectHrefs(sidebar.node)
                   ELSE <<>>
    IN  Unique(links2, {})

\* the selectors of main_selectors, each split at "." into tag and classes
main_selectors == << [tag |-> "div", classes |-> {MAIN}] >>

\* the first selector of main_selectors[from..] that finds an element
RECURSIVE FirstSelected(_, _)
FirstSelected(soup, from) ==
    IF from > Len(main_selectors) THEN [found |-> FALSE, node |-> Document(<<>>)]
    ELSE LET sel == main_selectors[from]
             hit == IF sel.classes /= {}
                    THEN FindTagClass(soup, sel.tag, sel.classes)
                    ELSE FindTag(soup, sel.tag)
         IN  IF hit.found THEN hit ELSE FirstSelected(soup, from + 1)

extract_main_content(soup) ==
    LET selected == FirstSelected(soup, 1)
        body     == FindTag(soup, "body")
        main_content ==
            IF selected.found THEN selected
            ELSE IF body.found
                 THEN [found |-> TRUE,
                       node |-> Decompose(Decompose(body.node, "chrome"), "side")]
                 ELSE [found |-> FALSE, node |-> Document(<<>>)]
    IN  IF main_content.found
        THEN Strip(Serialize(Decompose(main_content.node, "clutter")))
        ELSE Strip(Serialize(soup))

(***************************************************************************)
(* extractors/__init__.py: the registry                                    *)
(***************************************************************************)
\* the keys of EXTRACTORS in insertion order
EXTRACTORS == << "webdoc" >>

Detector(doc_type, soup) ==
    CASE doc_type = "webdoc" -> is_webdoc_generated(soup)

ContentExtractor(name, soup) ==
    CASE name = "webdoc" -> extract_main_content(soup)

LinkExtractor(name, soup) ==
    CASE name = "webdoc" -> extract_navigation_links(soup)

\* the first registered type whose detector accepts the page; "None" if none
detect_doc_type(soup) ==
    LET hits == {i \in DOMAIN EXTRACTORS : Detector(EXTRACTORS[i], soup)}
    IN  IF hits = {} THEN "None" ELSE EXTRACTORS[Min(hits)]

\* get_extractors answering None, None when no detector accepts the page
get_extractors_NoFallback(soup) ==
    LET doc_type == detect_doc_type(soup)
    IN  [content_extractor |-> doc_type, link_extractor |-> doc_type]

\* the names of the content extractor and of the link extractor
get_extractors(soup) ==
    LET doc_type == detect_doc_type(soup)
    IN  IF doc_type /= "None" /\ doc_type \in Range(EXTRACTORS)
        THEN [content_extractor |-> doc_type, link_extractor |-> doc_type]
        ELSE [content_extractor |-> "webdoc",
              link_extractor |-> IF doc_type /= "None" THEN doc_type ELSE "webdoc"]

(***************************************************************************)
(* main.py: the pieces of scrape_page and main that decide on values.      *)
(***************************************************************************)
\* fetch_url: a completed request with a 2xx status is returned; a transport
\* error or a non-2xx status (raise_for_status) is a RequestException, which
\* fetch_url answers with sys.exit(1)
fetch_url(outcome) == IF outcome = "ok" THEN "response" ELSE "exit"

FetchOutcomes == {"ok", "http_error", "transport_error"}

\* save_to_file letting the IOError through instead of leaving the process
save_to_file_error_Raise == "raise"

\* save_to_file on an IOError: sys.exit(1)
save_to_file_error == "exit"

\* save_to_file opening the file with 'w' whatever the mode asked for
open_write_Truncating(old, content, mode) == content

\* open(output_file, mode) and f.write(content): 'w' starts the file anew,
\* 'a' writes at its end
open_write(old, content, mode) ==
    IF mode = "w" THEN content ELSE old \o content

\* MarkItDown.convert_local on the temporary file: the text of the markup,
\* tags dropped and entities decoded
RECURSIVE StripTags(_)
StripTags(s) ==
    IF s = <<>> THEN <<>>
    ELSE IF s[1] = "<"
         THEN LET close == Find(s, ">", 1)
              IN  IF close = 0 THEN <<>> ELSE StripTags(From(s, close + 1))
    ELSE <<s[1]>> \o StripTags(From(s, 2))

MarkItDown(html) ==
    Replace(Replace(Replace(StripTags(html), LT, <<"<">>), GT, <<">">>), AMP, <<"&">>)

\* scrape_page with nothing kept when the converter raises
markdown_of_NoFallback(html_content, converted) ==
    IF converted
    THEN Replace(Replace(MarkItDown(html_content), <<"<", "S", ">">>, ESC_S_UPPER),
                 <<"<", "s", ">">>, ESC_S_LOWER)
    ELSE <<>>

\* lines 121-131 of scrape_page: the converter's text with "<S>" and "<s>"
\* escaped, or the wrapped markup itself when the converter raised
markdown_of(html_content, converted) ==
    IF converted
    THEN Replace(Replace(MarkItDown(html_content), <<"<", "S", ">">>, ESC_S_UPPER),
                 <<"<", "s", ">">>, ESC_S_LOWER)
    ELSE html_content

\* lines 94-98 of scrape_page
full_url_of(url, base_url) ==
    IF base_url /= <<>> /\ ~(StartsWith(url, HTTP_) \/ StartsWith(url, HTTPS_))
    THEN urljoin(base_url, url)
    ELSE url

\* lines 182-185 of main
full_link_of(link, base) ==
    IF ~(StartsWith(link, HTTP_) \/ StartsWith(link, HTTPS_))
    THEN urljoin(base, link)
    ELSE link

\* main comparing the link as written, not its normalised form, with the
\* scraped URLs
RECURSIVE BuildLinks_Unnormalized(_, _, _)
BuildLinks_Unnormalized(raw, base, scraped) ==
    IF raw = <<>> THEN <<>>
    ELSE (IF full_link_of(raw[1], base) \notin scraped
          THEN <<full_link_of(raw[1], base)>> ELSE <<>>)
            \o BuildLinks_Unnormalized(From(raw, 2), base, scraped)

\* lines 180-191 of main: the links kept for the crawl
RECURSIVE BuildLinks(_, _, _)
BuildLinks(raw, base, scraped) ==
    IF raw = <<>> THEN <<>>
    ELSE LET full_link       == full_link_of(raw[1], base)
             normalized_link == normalize_url(full_link)
         IN  (IF normalized_link \notin scraped THEN <<full_link>> ELSE <<>>)
                \o BuildLinks(From(raw, 2), base, scraped)

\* s[:n] of Python, n of either sign
SliceTo(s, n) ==
    IF n >= 0 THEN SubSeq(s, 1, IF n < Len(s) THEN n ELSE Len(s))
    ELSE SubSeq(s, 1, Len(s) + n)

\* main slicing one link too many: links[:max_pages + 1]
LoopLinks_OffByOne(all_links, a) ==
    IF a.has_max_pages /\ a.max_pages /= 0
    THEN SliceTo(all_links, a.max_pages + 1)
    ELSE SliceTo(all_links, Len(all_links))

\* lines 222-223 of main: links[:max_pages], max_pages defaulting to len(links)
\* when the option is absent or 0
LoopLinks(all_links, a) ==
    LET mp == IF a.has_max_pages /\ a.max_pages /= 0 THEN a.max_pages
              ELSE Len(all_links)
    IN  SliceTo(all_links, mp)

(***************************************************************************)
(* The pages of the model: what the site serves.                           *)
(***************************************************************************)
SeedUrls == { SEED_A, SEED_P }

\* the hrefs the seed page's navigation is drawn from, in page order
NavMaster == << HREF_B, HREF_A_SLASH, HREF_TOP, HREF_B_SLASH, HREF_C_FRAG,
                HREF_B, HREF_JS >>

RECURSIVE PickFrom(_, _, _)
PickFrom(m, I, k) ==
    IF k > Len(m) THEN <<>>
    ELSE (IF k \in I THEN <<m[k]>> ELSE <<>>) \o PickFrom(m, I, k + 1)

NavChoices ==
    { PickFrom(NavMaster, I, 1) :
        I \in {J \in SUBSET DOMAIN NavMaster : Cardinality(J) <= MaxLinks} }

Anchors(hrefs) == [i \in DOMAIN hrefs |-> Anchor(hrefs[i], <<TextNode(<<"l">>)>>)]

\* a page of a webdoc site: navigation, div.main, the generator's footer
WebdocPage(hrefs) ==
    Document(<<
      Elem("html", {}, <<
        Elem("body", {}, <<
          Elem("nav", {}, Anchors(hrefs)),
          Elem("div", {MAIN}, <<
            TextNode(<<"T", "<", "S", ">">>),
            Elem("script", {}, <<TextNode(<<"x">>)>>) >>),
          Elem("footer", {CONTENTSIZE}, <<
            TextNode(GENERATEDBY),
            Anchor(WEBDOCJS, <<TextNode(WEBDOC)>>) >>) >>) >>) >>)

\* a page of another generator: a sidebar menu, no main container, no footer
GenericPage ==
    Document(<<
      Elem("html", {}, <<
        Elem("body", {}, <<
          Elem("div", {SIDEBAR}, Anchors(<<HREF_B, HREF_C_FRAG>>)),
          Elem("p", {}, <<TextNode(<<"a", "&", "<", "s", ">">>)>>) >>) >>) >>)

\* a fragment of markup without html or body element
BarePage == Document(<< Elem("p", {}, <<TextNode(<<"<", "s", ">">>)>>) >>)

SeedDoms == {WebdocPage(h) : h \in NavChoices} \cup {GenericPage}

\* the page at the URL with path parameters: it links to itself and to b
ParamPage == WebdocPage(<<HREF_P, HREF_B>>)

\* the pages the site may serve at the seed URL
SeedDomsAt(url) == IF Contains(url, <<";">>) THEN {ParamPage} ELSE SeedDoms

\* the page the site serves to scrape_page at the URL of a link
PageAt(url) ==
    IF Contains(url, <<"c">>) THEN BarePage
    ELSE IF Contains(url, <<";">>) THEN ParamPage
    ELSE WebdocPage(<<>>)

(***************************************************************************)
(* State.                                                                  *)
(***************************************************************************)
VARIABLES
    args,           \* the parsed command line: url, max_pages (when given)
    pc,             \* where main (or scrape_page under it) stands
    exit_code,      \* the process's exit status once it has ended, else -1
    initial_url,    \* main's initial_url
    scraped_urls,   \* main's scraped_urls
    soup,           \* main's soup: the parsed seed page
    extractor_type, \* main's extractor_type
    extractors,     \* main's content_extractor and link_extractor (by name)
    raw_links,      \* main's raw_links
    links,          \* main's links
    loop_links,     \* links[:max_pages], the sequence the for loop walks
    pos,            \* the position of the for loop in loop_links (i - 1)
    normalized_link,\* the loop's normalized_link
    frame,          \* the locals of the running scrape_page call
    page,           \* the dict the last scrape_page call returned
    temp_files,     \* the temporary files that exist
    next_temp,      \* the name the next temporary file gets
    output,         \* the output file: whether it exists, and its entries
    faults,         \* how many failures the environment has produced
    log,            \* what happened so far: fetches, sleeps, marks, skips,
                    \* conversions, writes, caught errors
    n_pc, n_url, n_once, n_twice, n_variant, n_variant_once,
                    \* normalize_url applied to drawn URLs (see NormSpec)
    d_pc, d_soup, d_links, d_content, d_pair
                    \* the extractors applied to drawn pages (see DomSpec)

crawl_vars ==
    << args, pc, exit_code, initial_url, scraped_urls, soup, extractor_type,
       extractors, raw_links, links, loop_links, pos, normalized_link, frame,
       page, temp_files, next_temp, output, faults, log >>

norm_vars == << n_pc, n_url, n_once, n_twice, n_variant, n_variant_once >>

dom_vars == << d_pc, d_soup, d_links, d_content, d_pair >>

vars == << crawl_vars, norm_vars, dom_vars >>

NoFrame ==
    [caller |-> "none", idx |-> 0, full_url |-> <<>>, content_extractor |-> "None",
     soup |-> Document(<<>>), html_content |-> <<>>, markdown_content |-> <<>>,
     temp_file_path |-> 0]

NoPage == [url |-> <<>>, content |-> <<>>]

Event(ev, idx, url, res) == [ev |-> ev, idx |-> idx, url |-> url, res |-> res]

\* the state of the normalize_url part while the crawler runs
NormIdle ==
    /\ n_pc = "off"
    /\ n_url = <<>> /\ n_once = <<>> /\ n_twice = <<>>
    /\ n_variant = <<>> /\ n_variant_once = <<>>

\* the state of the extractor part while the crawler runs
DomIdle ==
    /\ d_pc = "off"
    /\ d_soup = Document(<<>>)
    /\ d_links = <<>>
    /\ d_content = <<>>
    /\ d_pair = [content_extractor |-> "None", link_extractor |-> "None"]

\* the process as main is entered
CrawlStart(a) ==
    /\ args = a
    /\ pc = "start"
    /\ exit_code = -1
    /\ initial_url = <<>>
    /\ scraped_urls = {}
    /\ soup = Document(<<>>)
    /\ extractor_type = ""
    /\ extractors = [content_extractor |-> "None", link_extractor |-> "None"]
    /\ raw_links = <<>>
    /\ links = <<>>
    /\ loop_links = <<>>
    /\ pos = 0
    /\ normalized_link = <<>>
    /\ frame = NoFrame
    /\ page = NoPage
    /\ temp_files = {}
    /\ next_temp = 1
    /\ output = [exists |-> FALSE, entries |-> <<>>]
    /\ faults = 0
    /\ log = <<>>

\* --url and --max-pages (absent, or 0..MaxCap)
ArgsSet ==
    { [url |-> u, has_max_pages |-> TRUE, max_pages |-> m] :
        u \in SeedUrls, m \in 0..MaxCap }
    \cup { [url |-> u, has_max_pages |-> FALSE, max_pages |-> 0] : u \in SeedUrls }

Init ==
    /\ \E a \in ArgsSet : CrawlStart(a)
    /\ NormIdle
    /\ DomIdle

\* the environment fails (at most MaxFaults times in a run) or does not
Fault(fails) ==
    IF fails THEN faults < MaxFaults /\ faults' = faults + 1
    ELSE faults' = faults

(***************************************************************************)
(* main, lines 153-219: the seed page.                                     *)
(***************************************************************************)
\* lines 153-158
Start ==
    /\ pc = "start"
    /\ initial_url' = normalize_url(args.url)
    /\ scraped_urls' = scraped_urls \cup {normalize_url(args.url)}
    /\ pc' = "fetch_seed"
    /\ UNCHANGED << args, exit_code, soup, extractor_type, extractors, raw_links,
                    links, loop_links, pos, normalized_link, frame, page,
                    temp_files, next_temp, output, log, faults, norm_vars, dom_vars >>

\* lines 160-163: fetch_url(initial_url) and the parse of its body
FetchSeed ==
    /\ pc = "fetch_seed"
    /\ \E outcome \in FetchOutcomes :
         /\ Fault(outcome /= "ok")
         /\ log' = Append(log, Event("fetch", 0, initial_url, outcome))
         /\ IF fetch_url(outcome) = "response"
            THEN /\ \E dom \in SeedDomsAt(initial_url) : soup' = dom
                 /\ pc' = "detect"
                 /\ UNCHANGED exit_code
            ELSE /\ pc' = "exited"
                 /\ exit_code' = 1
                 /\ UNCHANGED soup
    /\ UNCHANGED << args, initial_url, scraped_urls, extractor_type, extractors,
                    raw_links, links, loop_links, pos, normalized_link, frame,
                    page, temp_files, next_temp, output, norm_vars, dom_vars >>

\* lines 165-193: the format, the extractors, the links of the seed page
BuildFrontier ==
    /\ pc = "detect"
    /\ LET doc_type == detect_doc_type(soup)
           ex       == get_extractors(soup)
           raw      == LinkExtractor(ex.link_extractor, soup)
       IN  /\ extractor_type' = IF doc_type /= "None" THEN doc_type ELSE "generic"
           /\ extractors' = ex
           /\ raw_links' = raw
           /\ links' = BuildLinks(raw, initial_url, scraped_urls)
    /\ pc' = "scrape_seed"
    /\ UNCHANGED << args, exit_code, initial_url, scraped_urls, soup, loop_links,
                    pos, normalized_link, frame, page, temp_files, next_temp,
                    output, log, faults, norm_vars, dom_vars >>

\* line 196: scrape_page(initial_url, content_extractor=content_extractor)
CallScrapeSeed ==
    /\ pc = "scrape_seed"
    /\ frame' = [NoFrame EXCEPT !.caller = "seed", !.idx = 0,
                                !.full_url = full_url_of(initial_url, <<>>),
                                !.content_extractor = extractors.content_extractor]
    /\ pc' = "sp_fetch"
    /\ UNCHANGED << args, exit_code, initial_url, scraped_urls, soup,
                    extractor_type, extractors, raw_links, links, loop_links, pos,
                    normalized_link, page, temp_files, next_temp, output, log,
                    faults, norm_vars, dom_vars >>

(***************************************************************************)
(* scrape_page, lines 100-143.                                             *)
(***************************************************************************)
\* an exception leaves scrape_page: the for loop's handler catches it; raised
\* under the call for the seed page it ends the process
RaisedTo(caller) == IF caller = "loop" THEN "except" ELSE "exited"

\* lines 100-101: fetch_url(full_url) and the parse of its body
ScrapeFetch ==
    /\ pc = "sp_fetch"
    /\ \E outcome \in FetchOutcomes :
         /\ Fault(outcome /= "ok")
         /\ log' = Append(log, Event("fetch", frame.idx, frame.full_url, outcome))
         /\ IF fetch_url(outcome) = "response"
            THEN /\ frame' = [frame EXCEPT
                                 !.soup = IF frame.caller = "seed" THEN soup
                                          ELSE PageAt(frame.full_url)]
                 /\ pc' = "sp_extract"
                 /\ UNCHANGED exit_code
            ELSE /\ pc' = "exited"
                 /\ exit_code' = 1
                 /\ UNCHANGED frame
    /\ UNCHANGED << args, initial_url, scraped_urls, soup, extractor_type,
                    extractors, raw_links, links, loop_links, pos, normalized_link,
                    page, temp_files, next_temp, output, norm_vars, dom_vars >>

\* lines 103-113: the content extractor's markup, wrapped as a document
ScrapeExtract ==
    /\ pc = "sp_extract"
    /\ LET ce == IF frame.content_extractor = "None"
                 THEN get_extractors(frame.soup).content_extractor
                 ELSE frame.content_extractor
       IN  frame' = [frame EXCEPT
                       !.html_content =
                           HTML_OPEN \o ContentExtractor(ce, frame.soup) \o HTML_CLOSE]
    /\ pc' = "sp_temp"
    /\ UNCHANGED << args, exit_code, initial_url, scraped_urls, soup,
                    extractor_type, extractors, raw_links, links, loop_links, pos,
                    normalized_link, page, temp_files, next_temp, output, log,
                    faults, norm_vars, dom_vars >>

\* lines 116-119: the temporary file is created and written (delete=False);
\* either step may raise an OSError, the second with the file already there
ScrapeTemp ==
    /\ pc = "sp_temp"
    /\ \E res \in {"ok", "create_failed", "write_failed"} :
         /\ Fault(res /= "ok")
         /\ temp_files' = IF res = "create_failed" THEN temp_files
                          ELSE temp_files \cup {next_temp}
         /\ next_temp' = IF res = "create_failed" THEN next_temp ELSE next_temp + 1
         /\ log' = Append(log, Event("tempfile", frame.idx, frame.full_url, res))
         /\ IF res = "ok"
            THEN /\ frame' = [frame EXCEPT !.temp_file_path = next_temp]
                 /\ pc' = "sp_convert"
                 /\ UNCHANGED exit_code
            ELSE /\ pc' = RaisedTo(frame.caller)
                 /\ exit_code' = IF frame.caller = "loop" THEN exit_code ELSE 1
                 /\ UNCHANGED frame
    /\ UNCHANGED << args, initial_url, scraped_urls, soup, extractor_type,
                    extractors, raw_links, links, loop_links, pos, normalized_link,
                    page, output, norm_vars, dom_vars >>

\* lines 121-131: the conversion, or the fallback when it raises
ScrapeConvert ==
    /\ pc = "sp_convert"
    /\ \E converted \in BOOLEAN :
         /\ Fault(~converted)
         /\ frame' = [frame EXCEPT
                        !.markdown_content = markdown_of(frame.html_content, converted)]
         /\ log' = Append(log, Event("convert", frame.idx, frame.full_url,
                                     IF converted THEN "ok" ELSE "failed"))
    /\ pc' = "sp_cleanup"
    /\ UNCHANGED << args, exit_code, initial_url, scraped_urls, soup,
                    extractor_type, extractors, raw_links, links, loop_links, pos,
                    normalized_link, page, temp_files, next_temp, output,
                    norm_vars, dom_vars >>

\* lines 132-143: os.unlink (an error of it is ignored) and the return
ScrapeCleanup ==
    /\ pc = "sp_cleanup"
    /\ \E unlinked \in BOOLEAN :
         /\ Fault(~unlinked)
         /\ temp_files' = IF unlinked THEN temp_files \ {frame.temp_file_path}
                          ELSE temp_files
    /\ page' = [url |-> frame.full_url, content |-> frame.markdown_content]
    /\ pc' = IF frame.caller = "seed" THEN "save_seed" ELSE "append"
    /\ UNCHANGED << args, exit_code, initial_url, scraped_urls, soup,
                    extractor_type, extractors, raw_links, links, loop_links, pos,
                    normalized_link, frame, next_temp, output, log, norm_vars, dom_vars >>

(***************************************************************************)
(* main, lines 197-253: the output file and the loop over the links.       *)
(***************************************************************************)
Header == [kind |-> "header", url |-> <<>>, content |-> <<>>,
           extractor |-> extractor_type]

PageEntry(p) == [kind |-> "page", url |-> p.url, content |-> p.content,
                 extractor |-> ""]

\* lines 197-223: the header and the seed page written with mode 'w'; then
\* the loop is set up
SaveSeed ==
    /\ pc = "save_seed"
    /\ \E written \in BOOLEAN :
         /\ Fault(~written)
         /\ log' = Append(log, Event("write", 0, page.url,
                                     IF written THEN "ok" ELSE "failed"))
         /\ IF written
            THEN /\ output' = [exists |-> TRUE,
                               entries |-> open_write(output.entries,
                                                      <<Header, PageEntry(page)>>, "w")]
                 /\ loop_links' = LoopLinks(links, args)
                 /\ pos' = 1
                 /\ pc' = "loop"
                 /\ UNCHANGED exit_code
            ELSE /\ pc' = "exited"
                 /\ exit_code' = 1
                 /\ UNCHANGED << output, loop_links, pos >>
    /\ UNCHANGED << args, initial_url, scraped_urls, soup, extractor_type,
                    extractors, raw_links, links, normalized_link, frame, page,
                    temp_files, next_temp, norm_vars, dom_vars >>

\* line 223: the next link of links[:max_pages], or the end of main
LoopNext ==
    /\ pc = "loop"
    /\ IF pos <= Len(loop_links)
       THEN /\ pc' = "check"
            /\ UNCHANGED exit_code
       ELSE /\ pc' = "done"
            /\ exit_code' = 0
    /\ UNCHANGED << args, initial_url, scraped_urls, soup, extractor_type,
                    extractors, raw_links, links, loop_links, pos, normalized_link,
                    frame, page, temp_files, next_temp, output, log, faults, norm_vars, dom_vars >>

\* lines 226-231: a link already scraped is skipped
LoopCheck ==
    /\ pc = "check"
    /\ LET n == normalize_url(loop_links[pos])
       IN  /\ normalized_link' = n
           /\ IF n \in scraped_urls
              THEN /\ log' = Append(log, Event("skip", pos, loop_links[pos], "ok"))
                   /\ pos' = pos + 1
                   /\ pc' = "loop"
              ELSE /\ pc' = "sleep"
                   /\ UNCHANGED << log, pos >>
    /\ UNCHANGED << args, exit_code, initial_url, scraped_urls, soup,
                    extractor_type, extractors, raw_links, links, loop_links, frame,
                    page, temp_files, next_temp, output, faults, norm_vars, dom_vars >>

\* the loop going on to mark the link without waiting
LoopSleep_NoWait ==
    /\ pc = "sleep"
    /\ pc' = "mark"
    /\ UNCHANGED << args, exit_code, initial_url, scraped_urls, soup,
                    extractor_type, extractors, raw_links, links, loop_links, pos,
                    normalized_link, frame, page, temp_files, next_temp, output,
                    log, faults, norm_vars, dom_vars >>

\* line 234: time.sleep(args.delay)
LoopSleep ==
    /\ pc = "sleep"
    /\ log' = Append(log, Event("sleep", pos, loop_links[pos], "ok"))
    /\ pc' = "mark"
    /\ UNCHANGED << args, exit_code, initial_url, scraped_urls, soup,
                    extractor_type, extractors, raw_links, links, loop_links, pos,
                    normalized_link, frame, page, temp_files, next_temp, output,
                    faults, norm_vars, dom_vars >>

\* lines 237-239: the link is marked as scraped and scrape_page is called
LoopMark ==
    /\ pc = "mark"
    /\ scraped_urls' = scraped_urls \cup {normalized_link}
    /\ log' = Append(log, Event("mark", pos, normalized_link, "ok"))
    /\ frame' = [NoFrame EXCEPT !.caller = "loop", !.idx = pos,
                                !.full_url = full_url_of(loop_links[pos], initial_url),
                                !.content_extractor = extractors.content_extractor]
    /\ pc' = "sp_fetch"
    /\ UNCHANGED << args, exit_code, initial_url, soup, extractor_type, extractors,
                    raw_links, links, loop_links, pos, normalized_link, page,
                    temp_files, next_temp, output, faults, norm_vars, dom_vars >>

\* lines 240-251: the page appended to the output file with mode 'a'
LoopAppend ==
    /\ pc = "append"
    /\ \E written \in BOOLEAN :
         /\ Fault(~written)
         /\ log' = Append(log, Event("write", pos, page.url,
                                     IF written THEN "ok" ELSE "failed"))
         /\ IF written
            THEN /\ output' = [exists |-> TRUE,
                               entries |-> open_write(output.entries,
                                                      <<PageEntry(page)>>, "a")]
                 /\ pos' = pos + 1
                 /\ pc' = "loop"
                 /\ UNCHANGED exit_code
            ELSE /\ IF save_to_file_error = "exit"
                    THEN pc' = "exited" /\ exit_code' = 1
                    ELSE pc' = "except" /\ UNCHANGED exit_code
                 /\ UNCHANGED << output, pos >>
    /\ UNCHANGED << args, initial_url, scraped_urls, soup, extractor_type,
                    extractors, raw_links, links, loop_links, normalized_link,
                    frame, page, temp_files, next_temp, norm_vars, dom_vars >>

\* the handler taking the failed link out of scraped_urls again
LoopExcept_Unmark ==
    /\ pc = "except"
    /\ log' = Append(log, Event("caught", pos, loop_links[pos], "ok"))
    /\ scraped_urls' = scraped_urls \ {normalized_link}
    /\ pos' = pos + 1
    /\ pc' = "loop"
    /\ UNCHANGED << args, exit_code, initial_url, soup, extractor_type,
                    extractors, raw_links, links, loop_links, normalized_link,
                    frame, page, temp_files, next_temp, output, faults,
                    norm_vars, dom_vars >>

\* lines 252-253: except Exception: the error is printed, the loop goes on
LoopExcept ==
    /\ pc = "except"
    /\ log' = Append(log, Event("caught", pos, loop_links[pos], "ok"))
    /\ pos' = pos + 1
    /\ pc' = "loop"
    /\ UNCHANGED << args, exit_code, initial_url, scraped_urls, soup,
                    extractor_type, extractors, raw_links, links, loop_links,
                    normalized_link, frame, page, temp_files, next_temp, output,
                    faults, norm_vars, dom_vars >>

Next ==
    \/ Start
    \/ FetchSeed
    \/ BuildFrontier
    \/ CallScrapeSeed
    \/ ScrapeFetch
    \/ ScrapeExtract
    \/ ScrapeTemp
    \/ ScrapeConvert
    \/ ScrapeCleanup
    \/ SaveSeed
    \/ LoopNext
    \/ LoopCheck
    \/ LoopSleep
    \/ LoopMark
    \/ LoopAppend
    \/ LoopExcept

Spec == Init /\ [][Next]_vars

(***************************************************************************)
(* normalize_url on its own: a URL is drawn, normalised, and the result    *)
(* normalised again; a second URL that differs from the first only by its  *)
(* fragment or by '/' characters at the end of its path is normalised too. *)
(***************************************************************************)
TailChars == {"a", "/", ";", "?", "#"}

Tails == UNION {[1..k -> TailChars] : k \in 0..MaxTail}

\* scheme://host followed by every tail of at most MaxTail characters
NormUrls == {p \o tl : p \in {PREFIX_HTTP, PREFIX_UPPER}, tl \in Tails}

\* the end of what precedes the query and the fragment of a URL
HierEnd(u) ==
    IF FindAny(u, {"?", "#"}, 1) = 0 THEN Len(u) ELSE FindAny(u, {"?", "#"}, 1) - 1

\* u with k more '/' at the end of its path
AddSlashes(u, k) ==
    SubSeq(u, 1, HierEnd(u)) \o [i \in 1..k |-> "/"] \o From(u, HierEnd(u) + 1)

\* u with its fragment (if any) replaced by f
WithFragment(u, f) == Cut(u, "#").head \o f

\* the URLs that differ from u only by the fragment or by trailing slashes
Variants(u) ==
    { AddSlashes(WithFragment(u, f), k) :
        f \in {<<>>, <<"#", "a">>}, k \in 0..MaxExtraSlash } \ {u}

NormInit ==
    /\ CrawlStart([url |-> SEED_A, has_max_pages |-> FALSE, max_pages |-> 0])
    /\ n_pc = "drawn"
    /\ n_url \in NormUrls
    /\ n_once = <<>> /\ n_twice = <<>>
    /\ n_variant = <<>> /\ n_variant_once = <<>>
    /\ DomIdle

Normalize ==
    /\ n_pc = "drawn"
    /\ n_once' = normalize_url(n_url)
    /\ n_pc' = "once"
    /\ UNCHANGED << crawl_vars, dom_vars, n_url, n_twice, n_variant, n_variant_once >>

NormalizeAgain ==
    /\ n_pc = "once"
    /\ n_twice' = normalize_url(n_once)
    /\ n_pc' = "twice"
    /\ UNCHANGED << crawl_vars, dom_vars, n_url, n_once, n_variant, n_variant_once >>

NormalizeVariant ==
    /\ n_pc = "once"
    /\ \E v \in Variants(n_url) :
         /\ n_variant' = v
         /\ n_variant_once' = normalize_url(v)
    /\ n_pc' = "variant"
    /\ UNCHANGED << crawl_vars, dom_vars, n_url, n_once, n_twice >>

NormNext == Normalize \/ NormalizeAgain \/ NormalizeVariant

NormSpec == NormInit /\ [][NormNext]_vars

(***************************************************************************)
(* The extractors on their own: a page is drawn and the link extractor,    *)
(* the content extractor and get_extractors are each applied to it.        *)
(***************************************************************************)
\* the hrefs of the anchors of a drawn page's navigation
DomNavHrefs ==
    { <<>>,
      <<HREF_TOP, HREF_JS>>,
      <<HREF_B, HREF_TOP, HREF_B, HREF_JS, HREF_C_FRAG>> }

\* the hrefs of the anchors of a drawn page's sidebar: one of them is empty
DomSideHrefs == <<HREF_TOP, HREF_C_FRAG, <<>>, HREF_JS, HREF_C_FRAG, HREF_B_SLASH>>

\* the navigation of a drawn page: absent, a nav element, or div.navigation
NavPart(kind, hrefs) ==
    CASE kind = "none"       -> <<>>
      [] kind = "nav"        -> <<Elem("nav", {}, Anchors(hrefs))>>
      [] kind = "navigation" -> <<Elem("div", {NAVIGATION}, Anchors(hrefs))>>

\* the sidebar of a drawn page: absent, or a div of one of the three classes
SidePart(cls) ==
    IF cls = <<>> THEN <<>> ELSE <<Elem("div", {cls}, Anchors(DomSideHrefs))>>

\* what a drawn page has for content: div.main holding text, a script, a
\* style and a footer, or a paragraph beside a header, a script and div.navbar
ContentPart(kind) ==
    IF kind = "main"
    THEN << Elem("div", {MAIN}, <<
              TextNode(<<"T", "<", "S", ">">>),
              Elem("script", {}, <<TextNode(<<"x">>)>>),
              Elem("style", {}, <<TextNode(<<"y">>)>>),
              Elem("p", {}, <<TextNode(<<"z">>)>>),
              Elem("footer", {}, <<TextNode(<<"f">>)>>) >>) >>
    ELSE << Elem("header", {}, <<TextNode(<<"h">>)>>),
            Elem("p", {}, <<TextNode(<<"a", "&">>),
                            Elem("script", {}, <<TextNode(<<"x">>)>>)>>),
            Elem("style", {}, <<TextNode(<<"y">>)>>),
            Elem("div", {NAVBAR}, <<TextNode(<<"n">>)>>) >>

\* the generator's footer, or none
MarkerPart(marked) ==
    IF marked
    THEN << Elem("footer", {CONTENTSIZE}, <<
              TextNode(GENERATEDBY), Anchor(WEBDOCJS, <<TextNode(WEBDOC)>>) >>) >>
    ELSE <<>>

\* a drawn page: its parts in a body, or (has_body = FALSE) between two
\* pieces of white space with neither html nor body element
DomPage(kind, hrefs, cls, content, marked, has_body) ==
    LET parts == NavPart(kind, hrefs) \o SidePart(cls) \o ContentPart(content)
                    \o MarkerPart(marked)
    IN  IF has_body
        THEN Document(<< Elem("html", {}, << Elem("body", {}, parts) >>) >>)
        ELSE Document(<<TextNode(<<" ">>)>> \o parts \o <<TextNode(<<"\n">>)>>)

Doms ==
    { DomPage(kind, hrefs, cls, content, marked, has_body) :
        kind \in {"none", "nav", "navigation"}, hrefs \in DomNavHrefs,
        cls \in {<<>>, SIDEBAR, MENU, SIDENAV}, content \in {"main", "plain"},
        marked \in BOOLEAN, has_body \in BOOLEAN }

DomInit ==
    /\ CrawlStart([url |-> SEED_A, has_max_pages |-> FALSE, max_pages |-> 0])
    /\ NormIdle
    /\ d_pc = "drawn"
    /\ d_soup \in Doms
    /\ d_links = <<>>
    /\ d_content = <<>>
    /\ d_pair = [content_extractor |-> "None", link_extractor |-> "None"]

\* link_extractor(soup)
ExtractLinks ==
    /\ d_pc = "drawn"
    /\ d_links' = extract_navigation_links(d_soup)
    /\ d_pc' = "links"
    /\ UNCHANGED << crawl_vars, norm_vars, d_soup, d_content, d_pair >>

\* content_extractor(soup)
ExtractContent ==
    /\ d_pc = "drawn"
    /\ d_content' = extract_main_content(d_soup)
    /\ d_pc' = "content"
    /\ UNCHANGED << crawl_vars, norm_vars, d_soup, d_links, d_pair >>

\* get_extractors(soup)
Resolve ==
    /\ d_pc = "drawn"
    /\ d_pair' = get_extractors(d_soup)
    /\ d_pc' = "pair"
    /\ UNCHANGED << crawl_vars, norm_vars, d_soup, d_links, d_content >>

DomNext == ExtractLinks \/ ExtractContent \/ Resolve

DomSpec == DomInit /\ [][DomNext]_vars

(***************************************************************************)
(* Properties.  Helpers over the history kept in log.                      *)
(***************************************************************************)
\* the positions of log holding an event of kind ev
At(ev) == {k \in DOMAIN log : log[k].ev = ev}

\* the requests made for frontier entries (idx >= 1; the seed page is idx 0)
FrontierFetches == {k \in At("fetch") : log[k].idx >= 1}

\* C1: when the fetch of a frontier entry fails (transport error or non-2xx
\* status) the run does not abort: only that entry is skipped and the loop
\* goes on to the later entries.
C1_FrontierFetchFailureIsolated ==
    \A k \in FrontierFetches : log[k].res /= "ok" => pc /= "exited"

\* C2: in one run no normalised URL is requested more than once; in
\* particular the seed URL is requested exactly once.
C2_EachUrlFetchedAtMostOnce ==
    \A j, k \in At("fetch") :
        j < k => normalize_url(log[j].url) /= normalize_url(log[k].url)

\* C9: normalize_url is idempotent: normalising a normalised URL yields it
\* again.
C9_NormalizeIdempotent == n_pc = "twice" => n_twice = n_once

\* C10: two URLs that differ only by their fragment or by the number of '/'
\* characters ending the path (a query may follow) normalise to the same value.
C10_FragmentAndSlashesIgnored == n_pc = "variant" => n_variant_once = n_once


\* the page entries of the output file, in file order
PageEntries == SelectSeq(output.entries, LAMBDA e : e.kind = "page")

\* the requests for frontier entries, in the order they were made
FrontierFetchSeq == SelectSeq(log, LAMBDA e : e.ev = "fetch" /\ e.idx >= 1)

\* the writes of the output file that succeeded, in the order they were made
OkWrites == SelectSeq(log, LAMBDA e : e.ev = "write" /\ e.res = "ok")

\* a cap c >= 1 is given and the first c of the n >= c links are unseen: no
\* two of them are the same URL in normalised form
CapApplies ==
    /\ args.has_max_pages
    /\ args.max_pages >= 1
    /\ Len(links) >= args.max_pages
    /\ \A i, j \in 1..args.max_pages :
         i < j => normalize_url(links[i]) /= normalize_url(links[j])

\* C3: with a cap c >= 1 and n >= c unseen links, a run in which no entry's
\* processing failed ends having fetched exactly links 1..c in order and
\* holding c+1 page entries (the seed's and theirs); at no time with a cap is
\* a link beyond the c-th fetched.
C3_CapBoundsProcessing ==
    /\ (args.has_max_pages /\ args.max_pages >= 1) =>
         \A k \in FrontierFetches : log[k].idx <= args.max_pages
    /\ (pc = "done" /\ CapApplies /\ At("caught") = {}) =>
         /\ Len(FrontierFetchSeq) = args.max_pages
         /\ \A i \in 1..args.max_pages :
              /\ FrontierFetchSeq[i].idx = i
              /\ FrontierFetchSeq[i].url = full_url_of(links[i], initial_url)
         /\ Len(PageEntries) = args.max_pages + 1
         /\ \A i \in 1..args.max_pages :
              PageEntries[i + 1].url = full_url_of(links[i], initial_url)

\* a finished run that was capped at 2 with more than 2 links to follow
C3_Witness ==
    /\ pc = "done"
    /\ CapApplies
    /\ At("caught") = {}
    /\ args.max_pages = 2
    /\ Len(links) > args.max_pages
    /\ Len(FrontierFetchSeq) = 2

\* the markup scrape_page wraps for the page of log event e
WrappedFragment(e) ==
    LET s  == IF e.idx = 0 THEN soup ELSE PageAt(e.url)
        ce == IF extractors.content_extractor = "None"
              THEN get_extractors(s).content_extractor
              ELSE extractors.content_extractor
    IN  HTML_OPEN \o ContentExtractor(ce, s) \o HTML_CLOSE

FailedConverts == {k \in At("convert") : log[k].res = "failed"}

\* the number of successful writes among the first k events
OkWritesUpTo(k) ==
    Cardinality({j \in At("write") : j <= k /\ log[j].res = "ok"})

\* C4: a failed conversion of a page (seed or frontier) does not leave
\* scrape_page as an error: the next event of the run is the write of that
\* page, and when the write succeeds the page's entry holds the wrapped markup
\* <html><body>fragment</body></html> unchanged and the loop goes on.
C4_ConversionFailureFallsBack ==
    \A k \in FailedConverts :
        /\ k = Len(log) =>
             /\ pc \in {"sp_cleanup", "save_seed", "append"}
             /\ pc /= "sp_cleanup" => page.content = WrappedFragment(log[k])
        /\ k < Len(log) =>
             /\ log[k + 1].ev = "write"
             /\ log[k + 1].idx = log[k].idx
             /\ log[k + 1].res = "ok" =>
                  /\ PageEntries[OkWritesUpTo(k + 1)].url = log[k].url
                  /\ PageEntries[OkWritesUpTo(k + 1)].content = WrappedFragment(log[k])
                  /\ k + 1 = Len(log) => pc \in {"loop", "check", "sleep", "done"}

\* a finished run in which the conversion of a frontier page failed and its
\* entry was written
C4_Witness ==
    /\ pc = "done"
    /\ \E k \in FailedConverts :
         /\ log[k].idx >= 1
         /\ k < Len(log)
         /\ log[k + 1].res = "ok"
         /\ PageEntries[OkWritesUpTo(k + 1)].content = WrappedFragment(log[k])


\* the links of the seed page as main resolves them (lines 182-185)
JoinedRaw == [i \in DOMAIN raw_links |-> full_link_of(raw_links[i], initial_url)]

\* the extracted links that are the seed URL in normalised form
SeedEquivalent == {i \in DOMAIN raw_links : normalize_url(JoinedRaw[i]) = initial_url}

FrontierBuilt == pc \notin {"start", "fetch_seed", "detect"}

\* C5: once built, the frontier holds exactly the extracted links whose
\* normalised form is not the normalised seed URL, in the order the link
\* extractor returned them; with k links extracted and j of them normalising
\* to the seed it has at most k - j entries.
C5_FrontierExcludesSeed ==
    FrontierBuilt =>
        /\ links = SelectSeq(JoinedRaw, LAMBDA l : normalize_url(l) /= initial_url)
        /\ \A i \in DOMAIN links : normalize_url(links[i]) /= initial_url
        /\ Len(links) <= Len(raw_links) - Cardinality(SeedEquivalent)

\* a frontier built from links of which one, written differently from the seed
\* URL, normalises to it, and two others are kept
C5_Witness ==
    /\ FrontierBuilt
    /\ \E i \in SeedEquivalent : JoinedRaw[i] /= initial_url
    /\ Len(links) >= 2

SeedFetches == {k \in At("fetch") : log[k].idx = 0}

\* C6: when a request for the seed URL fails the process ends at once with
\* status 1, no link has been extracted or kept, no frontier entry is ever
\* requested and the output file does not exist.
C6_SeedFetchFailureBuildsNothing ==
    \A k \in SeedFetches :
        log[k].res /= "ok" =>
            /\ k = Len(log)
            /\ pc = "exited"
            /\ exit_code = 1
            /\ raw_links = <<>>
            /\ links = <<>>
            /\ FrontierFetches = {}
            /\ ~output.exists

FailedWrites == {k \in At("write") : log[k].res = "failed"}

\* C7: a failed write of the output file (the seed's or a frontier entry's)
\* ends the process with status 1 there and then: it is the last event of the
\* run, the loop's handler does not catch it, nothing is fetched or appended
\* after it.
C7_WriteFailureIsFatal ==
    \A k \in FailedWrites :
        /\ k = Len(log)
        /\ pc = "exited"
        /\ exit_code = 1
        /\ Len(PageEntries) = OkWritesUpTo(k)

\* the write of a frontier entry failed after an earlier one was appended
C7_Witness ==
    \E k \in FailedWrites :
        /\ log[k].idx >= 2
        /\ pc = "exited"
        /\ Len(PageEntries) = 2

IsPrefix(s, t) == Len(s) <= Len(t) /\ SubSeq(t, 1, Len(s)) = s

\* what a step may do to the output file: keep it, create it, or add one
\* entry at its end
AppendOnlyStep ==
    /\ output.exists => output'.exists
    /\ IsPrefix(output.entries, output'.entries)
    /\ output.exists => Len(output'.entries) <= Len(output.entries) + 1

\* the file holds the header, then one page entry per successful write, in
\* the order of the writes: the seed's first, then the links' in list order
WrittenInOrder ==
    /\ ~output.exists => output.entries = <<>> /\ FrontierFetches = {}
    /\ output.exists =>
         /\ output.entries[1].kind = "header"
         /\ Len(output.entries) = 1 + Len(PageEntries)
         /\ Len(PageEntries) = Len(OkWrites)
         /\ OkWrites[1].idx = 0
         /\ \A i \in DOMAIN OkWrites :
              /\ PageEntries[i].url = OkWrites[i].url
              /\ i > 1 => /\ OkWrites[i - 1].idx < OkWrites[i].idx
                          /\ OkWrites[i].url =
                               full_url_of(links[OkWrites[i].idx], initial_url)

\* C8: the output file is append-only within a run: no step removes or
\* changes what it holds (each state of the file is a prefix of the next), it
\* is created with the header and the seed's entry before any frontier entry
\* is requested, and each frontier entry processed with success adds exactly
\* one entry, in frontier order.
C8_OutputAppendOnly == [][AppendOnlyStep]_vars /\ []WrittenInOrder

\* the file after two frontier entries were appended
C8_Witness ==
    /\ output.exists
    /\ Len(PageEntries) = 3
    /\ OkWrites[2].idx < OkWrites[3].idx


\* the registered strategies whose detector accepts the drawn page
Matching == {i \in DOMAIN EXTRACTORS : Detector(EXTRACTORS[i], d_soup)}

\* C11: get_extractors always answers with a pair of registered extractors:
\* those of the first registered strategy whose detector accepts the page, and
\* those of the first registered strategy (webdoc) when no detector does.
C11_ResolveAlwaysUsable ==
    d_pc = "pair" =>
        /\ d_pair.content_extractor \in Range(EXTRACTORS)
        /\ d_pair.link_extractor \in Range(EXTRACTORS)
        /\ Matching /= {} =>
             d_pair = [content_extractor |-> EXTRACTORS[Min(Matching)],
                       link_extractor |-> EXTRACTORS[Min(Matching)]]
        /\ Matching = {} =>
             d_pair = [content_extractor |-> EXTRACTORS[1],
                       link_extractor |-> EXTRACTORS[1]]

\* get_extractors has answered for a page no detector accepts
C11_Witness ==
    /\ d_pc = "pair"
    /\ Matching = {}
    /\ d_pair.link_extractor = "webdoc"

\* the page has neither a nav element nor div.navigation
NoNavigation ==
    /\ ~FindTag(d_soup, "nav").found
    /\ ~FindTagClass(d_soup, "div", {NAVIGATION}).found

\* the hrefs of all anchors of the drawn page
AllHrefs ==
    LET A(n) == n.tag = "a" /\ n.has_href
    IN  {n.href : n \in Range(SelectSeq(Descendants(d_soup), A))}

\* C12: no href returned by extract_navigation_links begins with '#' or with
\* 'javascript:', whether the links come from the navigation element or from
\* the sidebar/menu container.
C12_NoFragmentOrScriptLinks ==
    d_pc = "links" =>
        \A i \in DOMAIN d_links :
            /\ ~StartsWith(d_links[i], <<"#">>)
            /\ ~StartsWith(d_links[i], JAVASCRIPT)

\* links were taken from a sidebar that also holds a '#' and a 'javascript:'
\* href, the page having no navigation element
C12_Witness ==
    /\ d_pc = "links"
    /\ NoNavigation
    /\ d_links /= <<>>
    /\ HREF_TOP \in AllHrefs
    /\ HREF_JS \in AllHrefs

\* node without the descendants that have one of the tags or a class name
\* holding one of the words, removed in one pass
RECURSIVE Without(_, _, _)
Without(node, tags, words) ==
    LET Stays(n) == /\ n.tag \notin tags
                    /\ \A c \in n.cls : \A w \in words : ~Contains(c, w)
        kept == SelectSeq(node.kids, Stays)
    IN  [node EXCEPT !.kids = [i \in DOMAIN kept |-> Without(kept[i], tags, words)]]

MainContainer == FindTagClass(d_soup, "div", {MAIN})

Body == FindTag(d_soup, "body")

\* what the claim as written says extract_main_content returns
ContentAsStated ==
    IF MainContainer.found
    THEN Serialize(Without(MainContainer.node, {"script", "style", "footer"}, {}))
    ELSE IF Body.found
    THEN Serialize(Without(Body.node, {"header", "footer", "nav"},
                           {SIDEBAR, MENU, NAV}))
    ELSE Serialize(d_soup)

\* the same with script and style elements removed from the body too, and
\* the white space at the two ends of the serialised document stripped
ContentAmended ==
    IF MainContainer.found
    THEN Serialize(Without(MainContainer.node, {"script", "style", "footer"}, {}))
    ELSE IF Body.found
    THEN Serialize(Without(Body.node, {"header", "footer", "nav", "script", "style"},
                           {SIDEBAR, MENU, NAV}))
    ELSE Strip(Serialize(d_soup))

\* C13 as written: the first main container without its script, style and
\* footer elements; else the body without header, footer and nav elements and
\* without the elements whose class holds 'sidebar', 'menu' or 'nav'; else the
\* whole document as it is.
C13_ContentAsStated == d_pc = "content" => d_content = ContentAsStated

\* C13 amended: as written, except that script and style elements are removed
\* from the body as well, and that the whole document, when it is what is
\* returned, loses the white space at its two ends.
C13_ContentByPriority == d_pc = "content" => d_content = ContentAmended

\* the content of a page without main container, whose body holds a script
\* and an element of class navbar
C13_Witness ==
    /\ d_pc = "content"
    /\ ~MainContainer.found
    /\ Body.found
    /\ FindTag(d_soup, "script").found
    /\ FindTagClass(d_soup, "div", {NAVBAR}).found
    /\ d_content = ContentAmended


\* C14: when a page cap c >= 0 is given (0 included), at most c frontier
\* entries are fetched, whatever the frontier.
C14_AtMostCapFetched ==
    args.has_max_pages => Cardinality(FrontierFetches) <= args.max_pages


\* C15: once the frontier is built no two of its entries are the same URL in
\* normalised form.
C15_FrontierHasNoDuplicates ==
    FrontierBuilt =>
        \A i, j \in DOMAIN links :
            i < j => normalize_url(links[i]) /= normalize_url(links[j])


\* scrape_page is not running: main is between two pages, or the run is over
BetweenPages == pc \in {"save_seed", "append", "except", "loop", "check",
                        "sleep", "mark", "done", "exited"}

\* C16: the temporary file of a page is gone on every way out of the page's
\* processing: none exists when the next page begins or when the run ends.
C16_NoTempFileLeft == BetweenPages => temp_files = {}


\* the events of the frontier entry at position i of the loop, in order
EventsOf(i) == SelectSeq(log, LAMBDA e : e.idx = i)

Kinds(es) == [k \in DOMAIN es |-> es[k].ev]

\* what may have happened so far to an entry that was not skipped: the wait,
\* the mark, the fetch, the temporary file, the conversion, the write; or the
\* same cut short by an error that the loop caught (the temporary file's)
FullCourse == <<"sleep", "mark", "fetch", "tempfile", "convert", "write">>

CaughtCourse == <<"sleep", "mark", "fetch", "tempfile", "caught">>

\* the URLs marked as scraped before the k-th event: the seed's and those of
\* the links marked by then
VisitedBefore(k) ==
    {initial_url} \cup {log[j].url : j \in {m \in At("mark") : m < k}}

\* C17: each fetch of a frontier entry comes after exactly one wait, in the
\* order check, wait, mark, fetch/extract/convert, append; an entry skipped
\* as already scraped has no wait, no fetch and no append; there is no wait
\* for the seed, whose fetches all come before the first wait.
C17_OneDelayBeforeEachFetch ==
    /\ \A i \in 1..Len(loop_links) :
         \/ Kinds(EventsOf(i)) = <<"skip">>
         \/ IsPrefix(Kinds(EventsOf(i)), FullCourse)
         \/ IsPrefix(Kinds(EventsOf(i)), CaughtCourse)
    /\ \A k \in At("skip") : normalize_url(log[k].url) \in VisitedBefore(k)
    /\ \A k \in At("sleep") :
         /\ log[k].idx >= 1
         /\ normalize_url(log[k].url) \notin VisitedBefore(k)
         /\ \A j \in SeedFetches : j < k
    /\ \A k \in FrontierFetches :
         /\ k >= 3
         /\ log[k - 2] = Event("sleep", log[k].idx, loop_links[log[k].idx], "ok")
         /\ log[k - 1].ev = "mark"
         /\ log[k - 1].idx = log[k].idx

\* a finished run in which one entry was skipped and a later one was waited
\* for, fetched and appended
C17_Witness ==
    /\ pc = "done"
    /\ \E i, j \in 1..Len(loop_links) :
         /\ i < j
         /\ Kinds(EventsOf(i)) = <<"skip">>
         /\ Kinds(EventsOf(j)) = FullCourse


\* in every state: the seed is in scraped_urls once main has set it up, a
\* link marked is in it, a frontier entry is marked before it is fetched and
\* is fetched at most once
VisitedHolds ==
    /\ pc /= "start" => initial_url \in scraped_urls
    /\ \A k \in At("mark") : log[k].url \in scraped_urls
    /\ \A k \in FrontierFetches :
         /\ normalize_url(log[k].url) \in scraped_urls
         /\ \E j \in 1..(k - 1) :
              /\ log[j].ev = "mark"
              /\ log[j].url = normalize_url(log[k].url)
         /\ \A j \in FrontierFetches :
              j < k => normalize_url(log[j].url) /= normalize_url(log[k].url)
    /\ \A k \in At("caught") : normalize_url(log[k].url) \in scraped_urls

\* C18: scraped_urls only grows: it holds the normalised seed URL from the
\* start, each frontier entry's normalised URL is added before the entry's
\* fetch, nothing is ever removed; an entry whose processing failed stays in
\* it and is not fetched again.
C18_VisitedOnlyGrows ==
    [][scraped_urls \subseteq scraped_urls']_vars /\ []VisitedHolds

\* an entry's processing failed, and a later link with the same normalised
\* URL was skipped for it
C18_Witness ==
    \E k \in At("caught") : \E j \in At("skip") :
        /\ k < j
        /\ normalize_url(log[j].url) = normalize_url(log[k].url)


\* the positions of the loop that something has happened to
Handled == {log[k].idx : k \in DOMAIN log} \ {0}

\* C19: once draining has begun the run ends in Done (a failed write of the
\* output file aside, which is fatal), and the loop handles at most
\* min(cap, |frontier|) positions.
C19_EndsInDoneWithinCap ==
    /\ (pc = "exited" /\ At("mark") /= {}) => FailedWrites /= {}
    /\ args.has_max_pages =>
         Cardinality(Handled) <= Min({args.max_pages, Len(links)})


\* C20: at every point of a run the normalised URL of every page entry of
\* the output file is in scraped_urls, and no two page entries have the same
\* normalised URL.
C20_ArtifactWithinVisited ==
    /\ \A i \in DOMAIN PageEntries :
         normalize_url(PageEntries[i].url) \in scraped_urls
    /\ \A i, j \in DOMAIN PageEntries :
         i < j => normalize_url(PageEntries[i].url) /= normalize_url(PageEntries[j].url)

=============================================================================
